---- MODULE Spec2Model ----
(***************************************************************************)
(* Model of components/echo/kube/sidecar.go: the sidecar handle, the       *)
(* admin request it issues through PodExec, and the WaitForConfig polling  *)
(* loop built on retry.UntilComplete.                                      *)
(*                                                                         *)
(* Strings are sequences of tokens; strings.Contains is contiguous         *)
(* sub-sequence search; fmt.Errorf / Sprintf is concatenation.  Durations  *)
(* are integers in milliseconds.                                           *)
(***************************************************************************)
EXTENDS Integers, Sequences, FiniteSets, TLC

VARIABLES
    s,          \* the sidecar handle: podNamespace, podName, cluster
    pc,         \* position of the WaitForConfig invocation
    delay,      \* retry config: backoff delay after the options are applied
    timeout,    \* retry config: total timeout after the options are applied
    elapsed,    \* time since retry.UntilComplete started
    cfg,        \* WaitForConfig's local `cfg` (sidecar.go:104)
    err,        \* error handed back by retry.UntilComplete (sidecar.go:105)
    lasterr,    \* last error of a not-completed attempt kept by the retry loop
    completed,  \* `completed` result of the last run of the retried closure
    request,    \* the PodExec call in flight, or NoRequest
    ret,        \* what WaitForConfig returned
    fetches,    \* number of PodExec calls issued by this invocation
    okFetches,  \* number of Config() calls that returned a message
    predCalls,  \* number of calls of accept
    sleeps,     \* number of backoff sleeps
    lastFetch,  \* result of the last Config() call
    lastOkCfg,  \* the last message Config() returned without error
    lastPred,   \* argument and result of the last accept call
    cleanPrefix,\* every earlier attempt was: fetch ok, accept returned an error
    rendered,   \* outcome of MarshalIndent in the failure report, if it ran
    op,         \* the operation of the sidecar the test called last
    t,          \* the test.Failer handed to the OrFail operations
    handles,    \* two sidecars used by two goroutines at the same time
    inv,        \* per goroutine: its WaitForConfig invocation
    cfgs        \* where each invocation keeps its cfg

vars == << s, pc, delay, timeout, elapsed, cfg, err, lasterr, completed,
           request, ret, fetches, okFetches, predCalls, sleeps, lastFetch,
           lastOkCfg, lastPred, cleanPrefix, rendered, op, t,
           handles, inv, cfgs >>

\* the state of the sidecar driven by one goroutine
seqVars == << s, pc, delay, timeout, elapsed, cfg, err, lasterr, completed,
              request, ret, fetches, okFetches, predCalls, sleeps, lastFetch,
              lastOkCfg, lastPred, cleanPrefix, rendered, op, t >>

-----------------------------------------------------------------------------
(* Bounds *)

MaxFetches == 4
MaxOpts == 2
MaxConcFetches == 2

-----------------------------------------------------------------------------
(* Program constants *)

proxyContainerName == "istio-proxy"
defaultConfigTimeout == 30000
defaultConfigDelay == 100

sigUnresolvedAny == << "could", "not", "resolve", "Any", "message", "type" >>
sigMissingType == << "Any", "JSON", "doesn't", "have", "'@type'" >>
rejectedText == << "envoy", "config", "rejected" >>
nilMarker == << "nil" >>

-----------------------------------------------------------------------------
(* Text, errors, messages *)

Contains(text, sub) ==
    \E i \in 1..(Len(text) - Len(sub) + 1) :
        SubSeq(text, i, i + Len(sub) - 1) = sub

NilErr == [nil |-> TRUE, text |-> << >>]
NewErr(text) == [nil |-> FALSE, text |-> text]

NilMsg == [nil |-> TRUE, type |-> "", content |-> << >>]
NewMsg(type) == [nil |-> FALSE, type |-> type, content |-> << >>]

-----------------------------------------------------------------------------
(* util/protomarshal: the permissive decoder and the indenting renderer.   *)
(* A body is "{" fields "}".  Field tokens: "A", "B" are known fields,     *)
(* "unknown" is a field this client does not know (tolerated, dropped),    *)
(* "@type:X" is an Any whose type cannot be resolved, "Any{}" is an Any    *)
(* without '@type'.                                                        *)

KnownFields == {"A", "B"}

RECURSIVE DecodeFields(_)
DecodeFields(fields) ==
    IF fields = << >> THEN [err |-> NilErr, content |-> << >>]
    ELSE LET f == Head(fields)
             rest == DecodeFields(Tail(fields))
         IN  IF f \in KnownFields
                 THEN [err |-> rest.err, content |-> << f >> \o rest.content]
             ELSE IF f = "unknown" THEN rest
             ELSE IF f = "@type:X"
                 THEN [err |-> NewErr(<< "proto:" >> \o sigUnresolvedAny \o << "X" >>),
                       content |-> << >>]
             ELSE IF f = "Any{}"
                 THEN [err |-> NewErr(<< "proto:" >> \o sigMissingType),
                       content |-> << >>]
             ELSE [err |-> NewErr(<< "proto:", "syntax", "error" >>),
                   content |-> << >>]

UnmarshalAllowUnknown(body, out) ==
    IF Len(body) >= 2 /\ body[1] = "{" /\ body[Len(body)] = "}"
        THEN LET d == DecodeFields(SubSeq(body, 2, Len(body) - 1))
             IN  [err |-> d.err, out |-> [out EXCEPT !.content = d.content]]
        ELSE [err |-> NewErr(<< "proto:", "syntax", "error" >>), out |-> out]

RECURSIVE IndentFields(_, _)
IndentFields(content, indent) ==
    IF content = << >> THEN << >>
    ELSE << indent, Head(content) >> \o IndentFields(Tail(content), indent)

MarshalIndent(msg, indent) ==
    << "{" >> \o IndentFields(msg.content, indent) \o << "}" >>

-----------------------------------------------------------------------------
(* cluster.PodExec: what the remote execution can hand back *)

ExecOk(body) == [stdout |-> body, stderr |-> << >>, err |-> NilErr]
ExecFailed(out, errOut) ==
    [stdout |-> out, stderr |-> errOut, err |-> NewErr(<< "exit", "1" >>)]

ExecResults ==
    { ExecOk(<< "{", "A", "}" >>),
      ExecOk(<< "{", "B", "unknown", "}" >>),
      ExecOk(<< "{", "A" >>),
      ExecOk(<< "{", "A", "@type:X", "}" >>),
      ExecOk(<< "{", "Any{}", "}" >>),
      ExecOk(sigMissingType),
      ExecFailed(<< >>, << "connection", "refused" >>),
      ExecFailed(<< "{", "A", "}" >>, << "command", "terminated" >>),
      ExecFailed(<< "{" >>, << "error:" >> \o sigUnresolvedAny) }

ExecTimes == {0, 100}

NoRequest == [podName |-> "", podNamespace |-> "", container |-> "", command |-> << >>]

-----------------------------------------------------------------------------
(* sidecar.adminRequest and sidecar.Config *)

MsgType(path) ==
    CASE path = "server_info" -> "ServerInfo"
      [] path = "config_dump" -> "ConfigDump"
      [] path = "clusters?format=json" -> "Clusters"
      [] path = "listeners?format=json" -> "Listeners"

Command(path) == << "pilot-agent", "request", "GET", path >>

PodExecCall(h, path) ==
    [podName |-> h.podName, podNamespace |-> h.podNamespace,
     container |-> proxyContainerName, command |-> Command(path)]

adminRequest(h, path, out, r) ==
    IF ~r.err.nil
        THEN [err |-> NewErr(<< "failed", "exec", "on", "pod", h.podNamespace, "/",
                                h.podName, ":" >> \o r.err.text
                             \o << ".", "Command:" >> \o Command(path)
                             \o << ".", "Output:" >> \o r.stdout \o r.stderr),
              out |-> out]
        ELSE LET d == UnmarshalAllowUnknown(r.stdout, out)
             IN  IF ~d.err.nil
                     THEN [err |-> NewErr(<< "failed", "parsing", "Envoy", "admin",
                                             "response", "from", "'/", path, "':" >>
                                          \o d.err.text
                                          \o << "Response", "JSON:" >> \o r.stdout),
                           out |-> d.out]
                     ELSE [err |-> NilErr, out |-> d.out]

Config(h, r) ==
    LET a == adminRequest(h, "config_dump", NewMsg(MsgType("config_dump")), r)
    IN  IF ~a.err.nil THEN [msg |-> NilMsg, err |-> a.err]
        ELSE [msg |-> a.out, err |-> NilErr]

-----------------------------------------------------------------------------
(* The four fetch operations, Logs, and the OrFail wrappers *)

AccessorKinds == {"Info", "Config", "Clusters", "Listeners"}

\* Listeners sent to the path of Clusters
AccessorPath_CopiedPath(k) ==
    CASE k = "Info" -> "server_info"
      [] k = "Config" -> "config_dump"
      [] k = "Clusters" -> "clusters?format=json"
      [] k = "Listeners" -> "clusters?format=json"

AccessorPath(k) ==
    CASE k = "Info" -> "server_info"
      [] k = "Config" -> "config_dump"
      [] k = "Clusters" -> "clusters?format=json"
      [] k = "Listeners" -> "listeners?format=json"

\* a failed PodExec issued again
adminRequestAfterExec_Retry(r) ==
    IF ~r.err.nil THEN "exec" ELSE "decode"

\* what adminRequest does once PodExec returned r: give up or decode
adminRequestAfterExec(r) ==
    IF ~r.err.nil THEN "return" ELSE "decode"

\* Info / Config / Clusters / Listeners: the message and error handed back
\* when adminRequest left (err, out)
\* the message buffer handed back together with the error
AccessorResult_KeepsMsg(a) ==
    [msg |-> a.out, err |-> a.err]

AccessorResult(a) ==
    IF ~a.err.nil THEN [msg |-> NilMsg, err |-> a.err]
    ELSE [msg |-> a.out, err |-> NilErr]

\* a wrapper that never calls t.Fatal
OrFailAborts_Never(e) == FALSE

\* the test of every OrFail wrapper: t.Fatal(err) is called
OrFailAborts(e) == ~e.nil

\* cluster.PodLogs: what the log channel can hand back
LogResults ==
    { [text |-> << "envoy", "started" >>, err |-> NilErr],
      [text |-> << >>, err |-> NewErr(<< "pod", "not", "found" >>)] }

NoOp == [name |-> "none", orFail |-> FALSE, done |-> FALSE, execs |-> 0,
         callerDelay |-> 0, callerTimeout |-> 0, out |-> NilMsg,
         msg |-> NilMsg, text |-> << >>, err |-> NilErr,
         exec |-> ExecOk(<< >>)]

NotFailed == [failed |-> FALSE, msg |-> NilErr]

-----------------------------------------------------------------------------
(* util/retry: options, the completion rule, the timeout error *)

BackoffDelay(d) == [name |-> "delay", value |-> d]
Timeout(d) == [name |-> "timeout", value |-> d]

RECURSIVE ApplyOptions(_, _)
ApplyOptions(options, c) ==
    IF options = << >> THEN c
    ELSE LET o == Head(options)
         IN  ApplyOptions(Tail(options),
                          IF o.name = "delay" THEN [c EXCEPT !.delay = o.value]
                          ELSE [c EXCEPT !.timeout = o.value])

retryDefaultConfig == [delay |-> 0, timeout |-> 0]

TimeoutErr(le) ==
    NewErr(<< "timeout", "while", "waiting", "(last", "error:" >>
           \o (IF le.nil THEN << "<nil>" >> ELSE le.text) \o << ")" >>)

\* a loop that runs the closure again without waiting
UntilCompleteNext_NoWait(out) ==
    IF out.completed
        THEN [pc |-> "Done", err |-> out.err, lasterr |-> lasterr]
        ELSE [pc |-> "Fetching", err |-> err, lasterr |-> out.err]

\* what the loop does with the closure's result (completed, err)
UntilCompleteNext(out) ==
    IF out.completed
        THEN [pc |-> "Done", err |-> out.err, lasterr |-> lasterr]
        ELSE [pc |-> "RetryWait", err |-> err, lasterr |-> out.err]

\* options a caller of WaitForConfig passes
CallerOptions == { BackoffDelay(200), Timeout(100), Timeout(300) }

RECURSIVE SeqsUpTo(_, _)
SeqsUpTo(S, n) ==
    IF n = 0 THEN { << >> }
    ELSE LET shorter == SeqsUpTo(S, n - 1)
         IN  shorter \cup { Append(q, x) : q \in shorter, x \in S }

-----------------------------------------------------------------------------
(* sidecar.WaitForConfig *)

\* the defaults placed after the caller's options
WithDefaults_Last(options) ==
    options \o << BackoffDelay(defaultConfigDelay), Timeout(defaultConfigTimeout) >>

WithDefaults(options) ==
    << BackoffDelay(defaultConfigDelay), Timeout(defaultConfigTimeout) >> \o options

IsUnparseable(e) ==
    \/ Contains(e.text, sigUnresolvedAny)
    \/ Contains(e.text, sigMissingType)

\* a classification that sends every fetch error to retry-wait
FetchErrOutcome_NeverTerminal(e) ==
    [completed |-> FALSE, err |-> e]

\* every failed fetch ends the wait with its error
FetchErrOutcome_AllTerminal(e) ==
    [completed |-> TRUE, err |-> e]

\* the closure's result when s.Config() returned the error e
FetchErrOutcome(e) ==
    IF Contains(e.text, sigUnresolvedAny) THEN [completed |-> TRUE, err |-> NilErr]
    ELSE IF Contains(e.text, sigMissingType) THEN [completed |-> TRUE, err |-> NilErr]
    ELSE [completed |-> FALSE, err |-> e]

\* a clean rejection treated as transient
AcceptOutcome_RejectionRetried(accepted, e) ==
    IF ~e.nil THEN [completed |-> FALSE, err |-> e]
    ELSE IF accepted THEN [completed |-> TRUE, err |-> NilErr]
    ELSE [completed |-> FALSE, err |-> NewErr(rejectedText)]

\* the accepted test inverted
AcceptOutcome_Inverted(accepted, e) ==
    IF ~e.nil THEN [completed |-> FALSE, err |-> e]
    ELSE IF ~accepted THEN [completed |-> TRUE, err |-> NilErr]
    ELSE [completed |-> TRUE, err |-> NewErr(rejectedText)]

\* an accept error treated as final
AcceptOutcome_PredErrTerminal(accepted, e) ==
    IF ~e.nil THEN [completed |-> TRUE, err |-> e]
    ELSE IF accepted THEN [completed |-> TRUE, err |-> NilErr]
    ELSE [completed |-> TRUE, err |-> NewErr(rejectedText)]

\* accepted tested before the error of accept
AcceptOutcome_AcceptedFirst(accepted, e) ==
    IF accepted THEN [completed |-> TRUE, err |-> NilErr]
    ELSE IF ~e.nil THEN [completed |-> FALSE, err |-> e]
    ELSE [completed |-> TRUE, err |-> NewErr(rejectedText)]

\* the closure's result when accept(cfg) returned (accepted, e)
AcceptOutcome(accepted, e) ==
    IF ~e.nil THEN [completed |-> FALSE, err |-> e]
    ELSE IF accepted THEN [completed |-> TRUE, err |-> NilErr]
    ELSE [completed |-> TRUE, err |-> NewErr(rejectedText)]

\* a report that leaves out the error of the retry loop
FailureReport_NoCause(e, c, renderOk) ==
    IF ~e.nil
        THEN LET configDumpStr == IF ~c.nil /\ renderOk
                                      THEN MarshalIndent(c, "  ")
                                      ELSE nilMarker
             IN  NewErr(<< "failed", "waiting", "for", "Envoy", "configuration:" >>
                        \o << ".", "Last", "config_dump:" >> \o configDumpStr)
        ELSE NilErr

\* the error of the retry loop handed back as it is
FailureReport_Bare(e, c, renderOk) == e

\* the error of MarshalIndent assigned to the err that is reported
FailureReport_RenderErrWins(e, c, renderOk) ==
    IF ~e.nil
        THEN IF ~c.nil /\ ~renderOk
                 THEN NewErr(<< "failed", "waiting", "for", "Envoy", "configuration:",
                                "proto:", "marshal", "error", ".", "Last",
                                "config_dump:" >> \o nilMarker)
                 ELSE NewErr(<< "failed", "waiting", "for", "Envoy", "configuration:" >>
                             \o e.text \o << ".", "Last", "config_dump:" >>
                             \o (IF c.nil THEN nilMarker ELSE MarshalIndent(c, "  ")))
        ELSE NilErr

\* the value WaitForConfig returns once retry.UntilComplete returned e
FailureReport(e, c, renderOk) ==
    IF ~e.nil
        THEN LET configDumpStr == IF ~c.nil /\ renderOk
                                      THEN MarshalIndent(c, "  ")
                                      ELSE nilMarker
             IN  NewErr(<< "failed", "waiting", "for", "Envoy", "configuration:" >>
                        \o e.text \o << ".", "Last", "config_dump:" >>
                        \o configDumpStr)
        ELSE NilErr

-----------------------------------------------------------------------------
(* What the caller supplies and what accept may answer *)

Pods == { [podNamespace |-> "ns1", podName |-> "echo-a"],
          [podNamespace |-> "ns2", podName |-> "echo-b"] }
Clusters == { "cluster-1" }

AcceptErrs == { NilErr, NewErr(<< "listener", "count", "mismatch" >>) }

NoFetch == [done |-> FALSE, transport |-> FALSE, stdout |-> << >>,
            output |-> << >>, decodeErr |-> NilErr, msg |-> NilMsg,
            err |-> NilErr]
NoPred == [attempt |-> 0, snap |-> NilMsg, accepted |-> FALSE, err |-> NilErr]

-----------------------------------------------------------------------------
(* State machine *)

\* two goroutines, each with a sidecar of its own
Invocations == {1, 2}

ConcHandles ==
    << [podNamespace |-> "ns1", podName |-> "echo-a", cluster |-> "cluster-1"],
       [podNamespace |-> "ns2", podName |-> "echo-b", cluster |-> "cluster-1"] >>

NoInv == [pc |-> "Idle", fetches |-> 0, elapsed |-> 0, err |-> NilErr,
          lasterr |-> NilErr, completed |-> FALSE, ret |-> NilErr,
          request |-> NoRequest, own |-> NilMsg, sawOwn |-> TRUE]

\* newSidecar
Init ==
    /\ s \in { [podNamespace |-> p.podNamespace, podName |-> p.podName,
                cluster |-> c] : p \in Pods, c \in Clusters }
    /\ pc = "Idle"
    /\ delay = 0
    /\ timeout = 0
    /\ elapsed = 0
    /\ cfg = NilMsg
    /\ err = NilErr
    /\ lasterr = NilErr
    /\ completed = FALSE
    /\ request = NoRequest
    /\ ret = NilErr
    /\ fetches = 0
    /\ okFetches = 0
    /\ predCalls = 0
    /\ sleeps = 0
    /\ lastFetch = NoFetch
    /\ lastOkCfg = NilMsg
    /\ lastPred = NoPred
    /\ cleanPrefix = TRUE
    /\ rendered = "none"
    /\ op = NoOp
    /\ t = NotFailed
    /\ handles = ConcHandles
    /\ inv = [i \in Invocations |-> NoInv]
    /\ cfgs = [i \in Invocations |-> NilMsg]

\* the value of the last option of the given name, 0 when there is none
RECURSIVE LastOf(_, _)
LastOf(options, name) ==
    IF options = << >> THEN 0
    ELSE LET o == options[Len(options)]
         IN  IF o.name = name THEN o.value
             ELSE LastOf(SubSeq(options, 1, Len(options) - 1), name)

\* adminRequest clearing the pod name of the handle once it has used it
AccessorCall_WritesHandle(k, orFail) ==
    /\ pc = "Idle"
    /\ request' = PodExecCall(s, AccessorPath(k))
    /\ op' = [NoOp EXCEPT !.name = k, !.orFail = orFail, !.execs = 1,
                          !.out = NewMsg(MsgType(AccessorPath(k)))]
    /\ pc' = "AccessExec"
    /\ s' = [s EXCEPT !.podName = ""]
    /\ UNCHANGED << handles, inv, cfgs >>
    /\ UNCHANGED << delay, timeout, elapsed, cfg, err, lasterr, completed, ret,
                    fetches, okFetches, predCalls, sleeps, lastFetch, lastOkCfg,
                    lastPred, cleanPrefix, rendered, t >>

\* Info, Config, Clusters or Listeners (or its OrFail wrapper) is called:
\* adminRequest issues its PodExec
AccessorCall(k, orFail) ==
    /\ pc = "Idle"
    /\ request' = PodExecCall(s, AccessorPath(k))
    /\ op' = [NoOp EXCEPT !.name = k, !.orFail = orFail, !.execs = 1,
                          !.out = NewMsg(MsgType(AccessorPath(k)))]
    /\ pc' = "AccessExec"
    /\ UNCHANGED << handles, inv, cfgs >>
    /\ UNCHANGED << s, delay, timeout, elapsed, cfg, err, lasterr, completed, ret,
                    fetches, okFetches, predCalls, sleeps, lastFetch, lastOkCfg,
                    lastPred, cleanPrefix, rendered, t >>

\* PodExec returns r to adminRequest; the operation (and its wrapper) returns
AccessorReturn(r) ==
    /\ pc = "AccessExec"
    /\ IF adminRequestAfterExec(r) = "exec" /\ op.execs < MaxFetches
           THEN /\ op' = [op EXCEPT !.execs = @ + 1]
                /\ UNCHANGED << pc, request, t >>
           ELSE LET a == adminRequest(s, AccessorPath(op.name), op.out, r)
                    res == AccessorResult(a)
                    fatal == op.orFail /\ OrFailAborts(res.err)
                IN  /\ op' = [op EXCEPT !.done = TRUE, !.out = a.out,
                                        !.msg = res.msg, !.err = res.err,
                                        !.exec = r]
                    /\ t' = IF fatal THEN [failed |-> TRUE, msg |-> res.err] ELSE t
                    /\ pc' = IF fatal THEN "Aborted" ELSE "Idle"
                    /\ request' = NoRequest
    /\ UNCHANGED << handles, inv, cfgs >>
    /\ UNCHANGED << s, delay, timeout, elapsed, cfg, err, lasterr, completed, ret,
                    fetches, okFetches, predCalls, sleeps, lastFetch, lastOkCfg,
                    lastPred, cleanPrefix, rendered >>

\* Logs (or LogsOrFail) is called and PodLogs hands back l
Logs(orFail, l) ==
    /\ pc = "Idle"
    /\ LET fatal == orFail /\ OrFailAborts(l.err)
       IN  /\ op' = [NoOp EXCEPT !.name = "Logs", !.orFail = orFail,
                                 !.done = TRUE, !.text = l.text, !.err = l.err]
           /\ t' = IF fatal THEN [failed |-> TRUE, msg |-> l.err] ELSE t
           /\ pc' = IF fatal THEN "Aborted" ELSE "Idle"
    /\ UNCHANGED << handles, inv, cfgs >>
    /\ UNCHANGED << s, delay, timeout, elapsed, cfg, err, lasterr, completed,
                    request, ret, fetches, okFetches, predCalls, sleeps, lastFetch,
                    lastOkCfg, lastPred, cleanPrefix, rendered >>

\* WaitForConfig is called: options are merged, UntilComplete starts
StartWait(options, orFail) ==
    /\ pc = "Idle"
    /\ op' = [NoOp EXCEPT !.name = "WaitForConfig", !.orFail = orFail,
                          !.callerDelay = LastOf(options, "delay"),
                          !.callerTimeout = LastOf(options, "timeout")]
    /\ LET c == ApplyOptions(WithDefaults(options), retryDefaultConfig)
       IN  /\ delay' = c.delay
           /\ timeout' = c.timeout
    /\ elapsed' = 0
    /\ cfg' = NilMsg
    /\ pc' = "Fetching"
    /\ UNCHANGED << handles, inv, cfgs >>
    /\ UNCHANGED << s, err, lasterr, completed, request, ret, fetches, okFetches,
                    predCalls, sleeps, lastFetch, lastOkCfg, lastPred,
                    cleanPrefix, rendered, t >>

\* WaitForConfig called directly
Call(options) == StartWait(options, FALSE)

\* WaitForConfigOrFail called
CallOrFail(options) == StartWait(options, TRUE)

\* a PodExec issued while the previous one has not returned
SendRequest_Overlapping ==
    /\ pc \in {"Fetching", "AwaitExec"}
    /\ fetches < MaxFetches
    /\ request' = PodExecCall(s, "config_dump")
    /\ fetches' = fetches + 1
    /\ cleanPrefix' = FALSE
    /\ pc' = "AwaitExec"
    /\ UNCHANGED << handles, inv, cfgs >>
    /\ UNCHANGED << s, delay, timeout, elapsed, cfg, err, lasterr, completed, ret,
                    okFetches, predCalls, sleeps, lastFetch, lastOkCfg, lastPred,
                    rendered, op, t >>

\* the closure runs: s.Config() -> adminRequest -> PodExec is issued
SendRequest ==
    /\ pc = "Fetching"
    /\ fetches < MaxFetches
    /\ request' = PodExecCall(s, "config_dump")
    /\ fetches' = fetches + 1
    /\ cleanPrefix' = (cleanPrefix /\ (fetches = 0 \/ (/\ lastFetch.done
                                                       /\ lastFetch.err.nil
                                                       /\ lastPred.attempt = fetches
                                                       /\ ~lastPred.accepted
                                                       /\ ~lastPred.err.nil)))
    /\ pc' = "AwaitExec"
    /\ UNCHANGED << handles, inv, cfgs >>
    /\ UNCHANGED << s, delay, timeout, elapsed, cfg, err, lasterr, completed, ret,
                    okFetches, predCalls, sleeps, lastFetch, lastOkCfg, lastPred,
                    rendered, op, t >>

\* a closure that goes on to accept without testing the error of s.Config()
ExecReturn_NoErrCheck(r, d) ==
    /\ pc = "AwaitExec"
    /\ LET res == Config(s, r)
       IN  /\ cfg' = res.msg
           /\ lastFetch' = [done |-> TRUE, transport |-> ~r.err.nil,
                            stdout |-> r.stdout, output |-> r.stdout \o r.stderr,
                            decodeErr |-> IF r.err.nil
                                              THEN UnmarshalAllowUnknown(r.stdout,
                                                       NewMsg("ConfigDump")).err
                                              ELSE NilErr,
                            msg |-> res.msg, err |-> res.err]
           /\ okFetches' = IF res.err.nil THEN okFetches + 1 ELSE okFetches
           /\ lastOkCfg' = IF res.err.nil THEN res.msg ELSE lastOkCfg
    /\ pc' = "Evaluating"
    /\ request' = NoRequest
    /\ elapsed' = elapsed + d
    /\ UNCHANGED << handles, inv, cfgs >>
    /\ UNCHANGED << s, delay, timeout, ret, fetches, predCalls, sleeps, lastPred,
                    cleanPrefix, rendered, op, t, err, lasterr, completed >>

\* PodExec returns r after d ms; adminRequest and Config finish; the closure
\* assigns cfg, err and classifies a failure
ExecReturn(r, d) ==
    /\ pc = "AwaitExec"
    /\ LET res == Config(s, r)
           out == FetchErrOutcome(res.err)
       IN  /\ cfg' = res.msg
           /\ lastFetch' = [done |-> TRUE, transport |-> ~r.err.nil,
                            stdout |-> r.stdout, output |-> r.stdout \o r.stderr,
                            decodeErr |-> IF r.err.nil
                                              THEN UnmarshalAllowUnknown(r.stdout,
                                                       NewMsg("ConfigDump")).err
                                              ELSE NilErr,
                            msg |-> res.msg, err |-> res.err]
           /\ IF res.err.nil
                  THEN /\ pc' = "Evaluating"
                       /\ okFetches' = okFetches + 1
                       /\ lastOkCfg' = res.msg
                       /\ UNCHANGED << err, lasterr, completed >>
                  ELSE /\ completed' = out.completed
                       /\ pc' = UntilCompleteNext(out).pc
                       /\ err' = UntilCompleteNext(out).err
                       /\ lasterr' = UntilCompleteNext(out).lasterr
                       /\ UNCHANGED << okFetches, lastOkCfg >>
    /\ request' = NoRequest
    /\ elapsed' = elapsed + d
    /\ UNCHANGED << handles, inv, cfgs >>
    /\ UNCHANGED << s, delay, timeout, ret, fetches, predCalls, sleeps, lastPred,
                    cleanPrefix, rendered, op, t >>

\* accept(cfg) returns (accepted, e)
Accept(accepted, e) ==
    /\ pc = "Evaluating"
    /\ LET out == AcceptOutcome(accepted, e)
       IN  /\ completed' = out.completed
           /\ pc' = UntilCompleteNext(out).pc
           /\ err' = UntilCompleteNext(out).err
           /\ lasterr' = UntilCompleteNext(out).lasterr
    /\ predCalls' = predCalls + 1
    /\ lastPred' = [attempt |-> fetches, snap |-> cfg, accepted |-> accepted,
                    err |-> e]
    /\ UNCHANGED << handles, inv, cfgs >>
    /\ UNCHANGED << s, delay, timeout, elapsed, cfg, request, ret, fetches,
                    okFetches, sleeps, lastFetch, lastOkCfg, cleanPrefix, rendered,
                    op, t >>

\* retry-wait with the time budget used up: UntilComplete gives up
RetryTimeout ==
    /\ pc = "RetryWait"
    /\ elapsed >= timeout
    /\ err' = TimeoutErr(lasterr)
    /\ pc' = "Done"
    /\ UNCHANGED << handles, inv, cfgs >>
    /\ UNCHANGED << s, delay, timeout, elapsed, cfg, lasterr, completed, request,
                    ret, fetches, okFetches, predCalls, sleeps, lastFetch,
                    lastOkCfg, lastPred, cleanPrefix, rendered, op, t >>

\* retry-wait with budget left: sleep the backoff delay, then fetch again
RetrySleep ==
    /\ pc = "RetryWait"
    /\ elapsed < timeout
    /\ elapsed' = elapsed + delay
    /\ sleeps' = sleeps + 1
    /\ pc' = "Fetching"
    /\ UNCHANGED << handles, inv, cfgs >>
    /\ UNCHANGED << s, delay, timeout, cfg, err, lasterr, completed, request, ret,
                    fetches, okFetches, predCalls, lastFetch, lastOkCfg, lastPred,
                    cleanPrefix, rendered, op, t >>

\* UntilComplete returned err: WaitForConfig builds its result and returns
\* it (to the test, or to WaitForConfigOrFail)
Return(renderOk) ==
    /\ pc = "Done"
    /\ ret' = FailureReport(err, cfg, renderOk)
    /\ op' = [op EXCEPT !.done = TRUE, !.err = FailureReport(err, cfg, renderOk)]
    /\ t' = IF op.orFail /\ OrFailAborts(FailureReport(err, cfg, renderOk))
                THEN [failed |-> TRUE, msg |-> FailureReport(err, cfg, renderOk)]
                ELSE t
    /\ rendered' = IF ~err.nil /\ ~cfg.nil
                       THEN (IF renderOk THEN "ok" ELSE "failed")
                       ELSE "none"
    /\ pc' = "Returned"
    /\ UNCHANGED << handles, inv, cfgs >>
    /\ UNCHANGED << s, delay, timeout, elapsed, cfg, err, lasterr, completed,
                    request, fetches, okFetches, predCalls, sleeps, lastFetch,
                    lastOkCfg, lastPred, cleanPrefix >>

Next ==
    \/ \E k \in AccessorKinds, orFail \in BOOLEAN : AccessorCall(k, orFail)
    \/ \E r \in ExecResults : AccessorReturn(r)
    \/ \E orFail \in BOOLEAN, l \in LogResults : Logs(orFail, l)
    \/ \E options \in SeqsUpTo(CallerOptions, MaxOpts) : Call(options)
    \/ \E options \in SeqsUpTo(CallerOptions, MaxOpts) : CallOrFail(options)
    \/ SendRequest
    \/ \E r \in ExecResults, d \in ExecTimes : ExecReturn(r, d)
    \/ \E accepted \in BOOLEAN, e \in AcceptErrs : Accept(accepted, e)
    \/ RetryTimeout
    \/ RetrySleep
    \/ \E renderOk \in BOOLEAN : Return(renderOk)

Spec == Init /\ [][Next]_vars

\* WaitForConfig called with a timeout option of the caller
CallWithTimeout(options) ==
    /\ LastOf(options, "timeout") # 0
    /\ Call(options)

\* one invocation of WaitForConfig whose time budget fits the fetch bound
LiveNext ==
    \/ \E options \in SeqsUpTo(CallerOptions, MaxOpts) : CallWithTimeout(options)
    \/ SendRequest
    \/ \E r \in ExecResults, d \in ExecTimes : ExecReturn(r, d)
    \/ \E accepted \in BOOLEAN, e \in AcceptErrs : Accept(accepted, e)
    \/ RetryTimeout
    \/ RetrySleep
    \/ \E renderOk \in BOOLEAN : Return(renderOk)

\* the calling goroutine keeps running, and PodExec and accept return
Fairness ==
    /\ WF_vars(SendRequest)
    /\ WF_vars(\E r \in ExecResults, d \in ExecTimes : ExecReturn(r, d))
    /\ WF_vars(\E accepted \in BOOLEAN, e \in AcceptErrs : Accept(accepted, e))
    /\ WF_vars(RetryTimeout)
    /\ WF_vars(RetrySleep)
    /\ WF_vars(\E renderOk \in BOOLEAN : Return(renderOk))

LiveSpec == Init /\ [][LiveNext]_vars /\ Fairness

-----------------------------------------------------------------------------
(* Two goroutines calling WaitForConfig at the same time *)

\* one variable for both invocations
CfgSlot_Shared(i) == 1

\* the variable holding cfg of invocation i: a local of that call
CfgSlot(i) == i

\* the snapshot invocation i has recorded
RecordedCfg(i) == cfgs[CfgSlot(i)]

\* both goroutines pass the same short timeout
ConcOptions == << Timeout(100) >>
ConcPolicy == ApplyOptions(WithDefaults(ConcOptions), retryDefaultConfig)

ConcExecResults ==
    { ExecOk(<< "{", "A", "}" >>),
      ExecOk(<< "{", "B", "unknown", "}" >>),
      ExecFailed(<< >>, << "connection", "refused" >>) }

\* what retry.UntilComplete does with the closure's result in invocation l
ConcLoopNext(l, out) ==
    IF out.completed
        THEN [l EXCEPT !.pc = "Done", !.completed = TRUE, !.err = out.err]
        ELSE [l EXCEPT !.pc = "RetryWait", !.lasterr = out.err]

\* goroutine i calls WaitForConfig on its sidecar
ConcCall(i) ==
    /\ inv[i].pc = "Idle"
    /\ inv' = [inv EXCEPT ![i].pc = "Fetching"]
    /\ cfgs' = [cfgs EXCEPT ![CfgSlot(i)] = NilMsg]
    /\ UNCHANGED handles
    /\ UNCHANGED seqVars

\* the closure of invocation i issues its PodExec
ConcSendRequest(i) ==
    /\ inv[i].pc = "Fetching"
    /\ inv[i].fetches < MaxConcFetches
    /\ inv' = [inv EXCEPT ![i].pc = "AwaitExec",
                          ![i].fetches = @ + 1,
                          ![i].request = PodExecCall(handles[i], "config_dump")]
    /\ UNCHANGED << handles, cfgs >>
    /\ UNCHANGED seqVars

\* PodExec of invocation i returns r; cfg, err are assigned and classified
ConcExecReturn(i, r) ==
    /\ inv[i].pc = "AwaitExec"
    /\ LET res == Config(handles[i], r)
           l == [inv[i] EXCEPT !.request = NoRequest, !.own = res.msg]
       IN  /\ cfgs' = [cfgs EXCEPT ![CfgSlot(i)] = res.msg]
           /\ inv' = [inv EXCEPT ![i] =
                         IF res.err.nil
                             THEN [l EXCEPT !.pc = "Evaluating"]
                             ELSE ConcLoopNext(l, FetchErrOutcome(res.err))]
    /\ UNCHANGED handles
    /\ UNCHANGED seqVars

\* accept of invocation i is handed its cfg and returns (accepted, e)
ConcAccept(i, accepted, e) ==
    /\ inv[i].pc = "Evaluating"
    /\ inv' = [inv EXCEPT ![i] =
                  ConcLoopNext([inv[i] EXCEPT !.sawOwn = (RecordedCfg(i) = inv[i].own)],
                               AcceptOutcome(accepted, e))]
    /\ UNCHANGED << handles, cfgs >>
    /\ UNCHANGED seqVars

\* retry-wait of invocation i with its time budget used up
ConcRetryTimeout(i) ==
    /\ inv[i].pc = "RetryWait"
    /\ inv[i].elapsed >= ConcPolicy.timeout
    /\ inv' = [inv EXCEPT ![i].pc = "Done", ![i].err = TimeoutErr(inv[i].lasterr)]
    /\ UNCHANGED << handles, cfgs >>
    /\ UNCHANGED seqVars

\* retry-wait of invocation i with budget left
ConcRetrySleep(i) ==
    /\ inv[i].pc = "RetryWait"
    /\ inv[i].elapsed < ConcPolicy.timeout
    /\ inv' = [inv EXCEPT ![i].pc = "Fetching",
                          ![i].elapsed = @ + ConcPolicy.delay]
    /\ UNCHANGED << handles, cfgs >>
    /\ UNCHANGED seqVars

\* invocation i builds its result from err and cfg and returns
ConcReturn(i, renderOk) ==
    /\ inv[i].pc = "Done"
    /\ inv' = [inv EXCEPT ![i].pc = "Returned",
                          ![i].ret = FailureReport(inv[i].err, RecordedCfg(i), renderOk)]
    /\ UNCHANGED << handles, cfgs >>
    /\ UNCHANGED seqVars

ConcNext ==
    \/ \E i \in Invocations : ConcCall(i)
    \/ \E i \in Invocations : ConcSendRequest(i)
    \/ \E i \in Invocations, r \in ConcExecResults : ConcExecReturn(i, r)
    \/ \E i \in Invocations, accepted \in BOOLEAN, e \in AcceptErrs :
           ConcAccept(i, accepted, e)
    \/ \E i \in Invocations : ConcRetryTimeout(i)
    \/ \E i \in Invocations : ConcRetrySleep(i)
    \/ \E i \in Invocations, renderOk \in BOOLEAN : ConcReturn(i, renderOk)

ConcSpec == Init /\ [][ConcNext]_vars

-----------------------------------------------------------------------------
(* Reading a returned failure report *)

\* the text after the last "Last config_dump:" of a report
LastConfigDump(text) ==
    LET at == { i \in 1..(Len(text) - 1) :
                    text[i] = "Last" /\ text[i + 1] = "config_dump:" }
    IN  IF at = {} THEN << >>
        ELSE LET last == CHOOSE i \in at : \A j \in at : j <= i
             IN  SubSeq(text, last + 2, Len(text))

Stopped == pc \in {"Done", "Returned"}

\* the last fetch failed with an error whose text has one of the signatures
LastFetchUnparseable ==
    lastFetch.done /\ ~lastFetch.err.nil /\ IsUnparseable(lastFetch.err)

\* accept ran in the current attempt, on the snapshot of the current fetch
PredOnLastFetch ==
    /\ lastFetch.done /\ lastFetch.err.nil
    /\ lastPred.attempt = fetches
    /\ lastPred.snap = lastFetch.msg

-----------------------------------------------------------------------------
(* Claims *)

\* C1: WaitForConfig returns no error only if accept was invoked on the most
\* recently fetched snapshot and returned (true, nil); every other way of
\* stopping returns a non-nil error.
C1_SuccessOnlyWhenAccepted ==
    (pc = "Returned" /\ ret.nil)
        => (PredOnLastFetch /\ lastPred.accepted /\ lastPred.err.nil)

\* C2: a config-dump fetch failing with an error text that has one of the two
\* unparseable-forever signatures makes WaitForConfig return a non-nil error
\* that combines the triggering error with the rendered last snapshot or the
\* "nil" marker.
C2_UnparseableReturnsError ==
    (pc = "Returned" /\ LastFetchUnparseable)
        => /\ ~ret.nil
           /\ Contains(ret.text, lastFetch.err.text)
           /\ \/ LastConfigDump(ret.text) = nilMarker
              \/ /\ ~lastOkCfg.nil
                 /\ LastConfigDump(ret.text) = MarshalIndent(lastOkCfg, "  ")

\* C3: a fetch failure whose error text has one of the two signatures stops
\* the loop on the attempt where it occurs: no backoff sleep and no further
\* fetch follow it (one fetch and no sleep when it is the first attempt),
\* whatever the timeout and backoff.
C3_UnparseableStopsOnThatAttempt ==
    LastFetchUnparseable
        => /\ Stopped
           /\ completed
           /\ request = NoRequest
           /\ sleeps = fetches - 1

C3_Witness ==
    /\ pc = "Returned"
    /\ LastFetchUnparseable
    /\ fetches = 1
    /\ sleeps = 0
    /\ timeout = defaultConfigTimeout

\* C4 as stated: accept returning (false, nil) stops the loop at once (no
\* retry, no sleep, no further fetch), the error carries "envoy config
\* rejected", and the snapshot embedded in the error is the result of that
\* very fetch.
C4_RejectionEmbedsThatFetch ==
    (PredOnLastFetch /\ ~lastPred.accepted /\ lastPred.err.nil)
        => /\ Stopped
           /\ completed
           /\ request = NoRequest
           /\ sleeps = fetches - 1
           /\ pc = "Returned"
                  => /\ ~ret.nil
                     /\ Contains(ret.text, rejectedText)
                     /\ LastConfigDump(ret.text) = MarshalIndent(lastFetch.msg, "  ")

\* C4 amended: as C4, but the embedded snapshot is the rendering of that very
\* fetch's result, or the "nil" marker when rendering it fails.
C4_RejectionIsTerminal ==
    (PredOnLastFetch /\ ~lastPred.accepted /\ lastPred.err.nil)
        => /\ Stopped
           /\ completed
           /\ request = NoRequest
           /\ sleeps = fetches - 1
           /\ pc = "Returned"
                  => /\ ~ret.nil
                     /\ Contains(ret.text, rejectedText)
                     /\ \/ LastConfigDump(ret.text) = MarshalIndent(lastFetch.msg, "  ")
                        \/ /\ rendered = "failed"
                           /\ LastConfigDump(ret.text) = nilMarker

C4_Witness ==
    /\ pc = "Returned"
    /\ PredOnLastFetch /\ ~lastPred.accepted /\ lastPred.err.nil
    /\ fetches = 1
    /\ rendered = "ok"
    /\ LastConfigDump(ret.text) = << "{", "  ", "B", "}" >>

\* C5: when the first fetch succeeds and accept returns (true, nil) on that
\* snapshot, WaitForConfig returns success after exactly one fetch and one
\* accept call, without any backoff sleep.
C5_AcceptedOnFirstSnapshot ==
    (lastPred.attempt = 1 /\ lastPred.accepted /\ lastPred.err.nil)
        => /\ Stopped
           /\ fetches = 1
           /\ predCalls = 1
           /\ sleeps = 0
           /\ pc = "Done" => err.nil
           /\ pc = "Returned" => ret.nil

C5_Witness ==
    /\ pc = "Returned"
    /\ lastPred.attempt = 1 /\ lastPred.accepted /\ lastPred.err.nil
    /\ ret.nil
    /\ fetches = 1

\* C6: with every fetch succeeding and accept returning (false, err) on
\* attempts 1..K-1 and (true, nil) on attempt K, WaitForConfig returns success
\* after exactly K fetches and K accept calls; before attempt K such a run
\* stops only when the time budget is used up.
C6_AcceptedOnAttemptK ==
    /\ (cleanPrefix /\ PredOnLastFetch /\ lastPred.accepted /\ lastPred.err.nil)
           => /\ Stopped
              /\ okFetches = fetches
              /\ predCalls = fetches
              /\ sleeps = fetches - 1
              /\ pc = "Done" => err.nil
              /\ pc = "Returned" => ret.nil
    /\ (cleanPrefix /\ PredOnLastFetch /\ ~lastPred.accepted /\ ~lastPred.err.nil
            /\ Stopped)
           => (elapsed >= timeout /\ ~completed)

C6_Witness ==
    /\ pc = "Returned"
    /\ cleanPrefix /\ PredOnLastFetch /\ lastPred.accepted /\ lastPred.err.nil
    /\ fetches = 3
    /\ predCalls = 3
    /\ ret.nil

\* the run timed out in an attempt whose fetch succeeded and whose accept call
\* returned an error
TimedOutOnPredErr ==
    /\ pc = "Returned"
    /\ ~completed
    /\ elapsed >= timeout
    /\ PredOnLastFetch
    /\ ~lastPred.err.nil

\* C7 as stated: when the timeout elapses while accept is still returning
\* errors on fetched snapshots, the returned error embeds the last snapshot
\* fetched before the timeout and has the last accept error as its cause.
C7_TimeoutEmbedsLastSnapshot ==
    TimedOutOnPredErr
        => /\ ~ret.nil
           /\ Contains(ret.text, lastPred.err.text)
           /\ LastConfigDump(ret.text) = MarshalIndent(lastFetch.msg, "  ")

\* C7 amended: as C7, but the embedded snapshot is the rendering of the last
\* snapshot fetched before the timeout, or the "nil" marker when rendering it
\* fails.
C7_TimeoutReportsLastPredErr ==
    TimedOutOnPredErr
        => /\ ~ret.nil
           /\ Contains(ret.text, lastPred.err.text)
           /\ \/ LastConfigDump(ret.text) = MarshalIndent(lastFetch.msg, "  ")
              \/ /\ rendered = "failed"
                 /\ LastConfigDump(ret.text) = nilMarker

C7_Witness ==
    /\ TimedOutOnPredErr
    /\ fetches = 2
    /\ rendered = "ok"
    /\ Contains(ret.text, << "listener", "count", "mismatch" >>)
    /\ LastConfigDump(ret.text) = << "{", "  ", "A", "}" >>

\* C8: the snapshot rendered into a returned failure is the last successfully
\* decoded snapshot of the invocation, and the "nil" marker appears only if no
\* fetch of the invocation ever succeeded (stated here for the runs in which
\* rendering itself did not fail).
C8_ReportHasLastDecodedSnapshot ==
    (pc = "Returned" /\ ~ret.nil /\ rendered # "failed")
        => LastConfigDump(ret.text) =
               (IF lastOkCfg.nil THEN nilMarker ELSE MarshalIndent(lastOkCfg, "  "))

\* C9: a transport error of the config-dump fetch is always transient: it
\* never completes the loop, whatever the captured output in the error.
C9_TransportErrorNeverTerminal ==
    (lastFetch.done /\ lastFetch.transport) => ~(Stopped /\ completed)

\* C10: a decode failure whose decoder message is ordinary (has neither
\* signature) is retried like any transient error, whatever the raw response
\* text embedded in the error.
C10_OrdinaryDecodeErrorRetried ==
    (/\ lastFetch.done
     /\ ~lastFetch.transport
     /\ ~lastFetch.decodeErr.nil
     /\ ~IsUnparseable(lastFetch.decodeErr))
        => ~(Stopped /\ completed)

\* the invocation of WaitForConfig is under way or over
InWait == op.name = "WaitForConfig"

\* accept ran in the current attempt and returned an error
PredErrInLastAttempt ==
    /\ lastPred.attempt >= 1
    /\ lastPred.attempt = fetches
    /\ ~lastPred.err.nil

\* C11: an error of accept, whatever its boolean, never ends WaitForConfig
\* while time budget remains: it leads to retry-wait and on to the next fetch;
\* only the used-up timeout turns it into a terminal failure.
C11_PredErrorOnlyEndsByTimeout ==
    PredErrInLastAttempt
        => /\ ~completed
           /\ pc \in {"RetryWait", "Fetching", "Done", "Returned"}
           /\ Stopped => elapsed >= timeout
           /\ pc = "Done" => ~err.nil
           /\ pc = "Returned" => ~ret.nil

C11_Witness ==
    /\ pc = "Fetching"
    /\ PredErrInLastAttempt
    /\ lastPred.accepted
    /\ sleeps = fetches
    /\ elapsed < timeout

\* C12: every non-nil error WaitForConfig returns contains the cause (the last
\* transient error or the rejection signal) and the last observed state (the
\* rendered snapshot or the "nil" marker); the error of the retry loop is
\* never returned bare.
C12_FailureHasCauseAndState ==
    (pc = "Returned" /\ ~ret.nil)
        => /\ ~completed => ~lasterr.nil
           /\ Contains(ret.text, IF completed THEN rejectedText ELSE lasterr.text)
           /\ \/ LastConfigDump(ret.text) = nilMarker
              \/ /\ ~lastOkCfg.nil
                 /\ LastConfigDump(ret.text) = MarshalIndent(lastOkCfg, "  ")
           /\ ret # err

C12_Witness ==
    /\ pc = "Returned"
    /\ ~ret.nil
    /\ ~completed
    /\ lastFetch.transport
    /\ Contains(ret.text, << "connection", "refused" >>)
    /\ LastConfigDump(ret.text) = nilMarker

\* C13: two WaitForConfig invocations running at the same time on two
\* sidecars do not interfere under any interleaving: a step of one leaves the
\* other's state and recorded snapshot as they were, each invocation records,
\* shows to accept and reports only what its own fetches returned, and no
\* step writes a handle.
C13_NoInterference ==
    /\ [][ \A i \in Invocations :
               inv'[i] # inv[i]
                   => \A j \in Invocations \ {i} :
                          /\ inv'[j] = inv[j]
                          /\ RecordedCfg(j)' = RecordedCfg(j) ]_vars
    /\ [][ handles' = handles ]_vars
    /\ [](\A i \in Invocations :
             /\ inv[i].pc # "Idle" => RecordedCfg(i) = inv[i].own
             /\ inv[i].sawOwn
             /\ inv[i].request # NoRequest
                    => inv[i].request = PodExecCall(ConcHandles[i], "config_dump")
             /\ (inv[i].pc = "Returned" /\ ~inv[i].ret.nil)
                    => \/ LastConfigDump(inv[i].ret.text) = nilMarker
                       \/ /\ ~inv[i].own.nil
                          /\ LastConfigDump(inv[i].ret.text)
                                 = MarshalIndent(inv[i].own, "  "))

C13_Witness ==
    /\ inv[1].pc = "Returned"
    /\ inv[2].pc = "Returned"
    /\ inv[1].fetches = 2
    /\ inv[2].fetches = 1
    /\ ~inv[1].own.nil
    /\ ~inv[2].own.nil
    /\ inv[1].own # inv[2].own
    /\ ~inv[1].ret.nil
    /\ inv[2].ret.nil

\* C14: each fetch through Info, Config, Clusters or Listeners issues exactly
\* one remote execution and is not retried, whether the execution or the
\* decode fails or succeeds; inside WaitForConfig every further execution
\* comes from one more turn of the loop.
C14_OneExecPerFetch ==
    /\ op.name \in AccessorKinds => op.execs = 1
    /\ InWait => (sleeps <= fetches /\ fetches <= sleeps + 1)

C14_Witness ==
    /\ op.name = "Listeners"
    /\ op.done
    /\ op.exec.err.nil
    /\ ~op.err.nil
    /\ op.execs = 1

\* C15: an OrFail wrapper calls t.Fatal if and only if the operation it wraps
\* returned an error, with exactly that error; when the operation succeeds the
\* test goes on and the result of the operation is handed back.
C15_OrFailAbortsIffError ==
    /\ t.failed => (op.done /\ op.orFail /\ ~op.err.nil /\ t.msg = op.err)
    /\ (op.done /\ op.orFail /\ ~op.err.nil) => t.failed
    /\ pc = "Aborted" => t.failed
    /\ (op.done /\ op.name \in AccessorKinds /\ op.err.nil)
           => (~op.msg.nil /\ op.msg = op.out /\ pc = "Idle")

C15_Witness ==
    /\ op.name = "Clusters"
    /\ op.orFail
    /\ op.done
    /\ t.failed
    /\ t.msg = op.err
    /\ pc = "Aborted"

\* the query and the message type the four snapshot kinds are to use
ExpectedQuery(k) ==
    CASE k = "Info" -> << "pilot-agent", "request", "GET", "server_info" >>
      [] k = "Config" -> << "pilot-agent", "request", "GET", "config_dump" >>
      [] k = "Clusters" -> << "pilot-agent", "request", "GET", "clusters?format=json" >>
      [] k = "Listeners" -> << "pilot-agent", "request", "GET", "listeners?format=json" >>

ExpectedType(k) ==
    CASE k = "Info" -> "ServerInfo"
      [] k = "Config" -> "ConfigDump"
      [] k = "Clusters" -> "Clusters"
      [] k = "Listeners" -> "Listeners"

\* C16: the four snapshot kinds issue four pairwise distinct queries
\* ("pilot-agent request GET <path>" in the istio-proxy container of the pod),
\* each decodes into its own message type; a transport failure gives an error
\* with the captured stdout+stderr and skips decoding, a malformed body gives
\* a decode error with the raw body.
C16_QueriesAndErrors ==
    /\ \A k1, k2 \in AccessorKinds :
           k1 # k2 => Command(AccessorPath(k1)) # Command(AccessorPath(k2))
    /\ pc = "AccessExec"
           => request = [podName |-> s.podName, podNamespace |-> s.podNamespace,
                         container |-> "istio-proxy",
                         command |-> ExpectedQuery(op.name)]
    /\ (op.done /\ op.name \in AccessorKinds)
           => /\ op.out.type = ExpectedType(op.name)
              /\ ~op.exec.err.nil
                     => /\ ~op.err.nil
                        /\ Contains(op.err.text, op.exec.stdout \o op.exec.stderr)
                        /\ op.out.content = << >>
              /\ (op.exec.err.nil
                    /\ ~UnmarshalAllowUnknown(op.exec.stdout, NilMsg).err.nil)
                     => /\ ~op.err.nil
                        /\ Contains(op.err.text, op.exec.stdout)

C16_Witness ==
    /\ op.done
    /\ op.name = "Listeners"
    /\ ~op.exec.err.nil
    /\ op.exec.stdout = << "{", "A", "}" >>
    /\ op.out.content = << >>

\* C17: without options WaitForConfig runs with a 100ms backoff delay and a
\* 30s timeout; options of the caller are applied after these defaults, so a
\* backoff or timeout of the caller replaces the default one.
C17_DefaultsThenCallerOptions ==
    InWait
        => /\ delay = (IF op.callerDelay = 0 THEN 100 ELSE op.callerDelay)
           /\ timeout = (IF op.callerTimeout = 0 THEN 30000 ELSE op.callerTimeout)

C17_Witness ==
    /\ InWait
    /\ op.callerDelay = 200
    /\ delay = 200
    /\ op.callerTimeout = 0
    /\ timeout = 30000

\* the loop was ended by the closure: acceptance, clean rejection or an
\* unparseable-forever fetch error
TerminalClassification ==
    \/ PredOnLastFetch /\ lastPred.err.nil
    \/ lastFetch.done /\ ~lastFetch.err.nil /\ IsUnparseable(lastFetch.err)

\* C18: every WaitForConfig invocation terminates; with transient errors only
\* it stops with a failure once the elapsed time has reached the timeout, and
\* apart from the timeout it stops only on a terminal classification.
C18_AlwaysTerminates ==
    /\ InWait ~> pc = "Returned"
    /\ [](Stopped => (completed \/ elapsed >= timeout))
    /\ [](Stopped /\ completed => TerminalClassification)
    /\ [](Stopped /\ ~completed => ~err.nil)
    /\ [](pc = "Returned" /\ ~completed => ~ret.nil)

C18_Witness ==
    /\ pc = "Returned"
    /\ ~completed
    /\ ~ret.nil
    /\ fetches >= 3
    /\ elapsed >= timeout
    /\ predCalls >= 1

\* C19: any two consecutive fetches of one WaitForConfig invocation are
\* separated by a backoff sleep of at least the configured delay: a fetch is
\* never issued after a transient failure without passing through retry-wait.
C19_SleepBetweenFetches ==
    [][ /\ (fetches' = fetches + 1 /\ fetches >= 1) => sleeps = fetches
        /\ sleeps' = sleeps + 1
               => (pc = "RetryWait" /\ delay > 0 /\ elapsed' - elapsed >= delay) ]_vars

C19_Witness ==
    /\ pc = "AwaitExec"
    /\ fetches = 3
    /\ sleeps = 2
    /\ delay = 200
    /\ elapsed >= 400

\* C20: at most one remote request of a WaitForConfig invocation is
\* outstanding at any time: a fetch starts only after the previous fetch has
\* returned and been classified and, when it succeeded, accept has returned.
C20_OneOutstandingRequest ==
    /\ [](request # NoRequest => pc \in {"AwaitExec", "AccessExec"})
    /\ [][ fetches' = fetches + 1
              => /\ request = NoRequest
                 /\ pc = "Fetching"
                 /\ fetches >= 1
                        => /\ lastFetch.done
                           /\ lastFetch.err.nil => lastPred.attempt = fetches
                           /\ ~lastFetch.err.nil => ~completed ]_vars

C20_Witness ==
    /\ pc = "AwaitExec"
    /\ request # NoRequest
    /\ fetches = 2
    /\ lastFetch.done
    /\ lastFetch.err.nil
    /\ lastPred.attempt = 1

\* C21: accept is invoked exactly once per successful fetch, on the snapshot
\* the fetch of the same cycle returned, never for a cycle whose fetch failed
\* and never with a nil snapshot; the number of accept calls equals the number
\* of successful fetches.
C21_AcceptOncePerSuccessfulFetch ==
    /\ [](InWait => /\ pc # "Evaluating" => predCalls = okFetches
                    /\ pc = "Evaluating" => (/\ okFetches = predCalls + 1
                                             /\ lastFetch.err.nil
                                             /\ ~cfg.nil
                                             /\ cfg = lastFetch.msg)
                    /\ lastPred.attempt >= 1 => ~lastPred.snap.nil)
    /\ [][ predCalls' = predCalls + 1
              => /\ pc = "Evaluating"
                 /\ lastPred.attempt < fetches
                 /\ lastPred'.attempt = fetches
                 /\ lastFetch.done /\ lastFetch.err.nil
                 /\ ~lastFetch.msg.nil
                 /\ lastPred'.snap = lastFetch.msg ]_vars

C21_Witness ==
    /\ InWait
    /\ fetches = 3
    /\ okFetches = 2
    /\ predCalls = 2
    /\ lastPred.attempt = 3
    /\ lastPred.snap = lastFetch.msg
    /\ lastPred.snap.content = << "B" >>

\* C22: no operation of the sidecar modifies the handle: podNamespace, podName
\* and cluster keep the values given at construction across any sequence of
\* operations.
C22_HandleNeverWritten ==
    /\ [][ s' = s ]_vars
    /\ [](/\ [podNamespace |-> s.podNamespace, podName |-> s.podName] \in Pods
          /\ s.cluster \in Clusters)

C22_Witness ==
    /\ pc = "Returned"
    /\ op.done
    /\ t.failed
    /\ s.podName = "echo-b"
    /\ s.podNamespace = "ns2"
    /\ s.cluster = "cluster-1"

\* C23: Info, Config, Clusters and Listeners return either a non-nil message
\* with a nil error or a nil message with a non-nil error: when the remote
\* execution or the decode fails the message returned is nil, never a partly
\* decoded message next to an error.
C23_MessageOrError ==
    /\ (op.done /\ op.name \in AccessorKinds)
           => /\ op.msg.nil <=> ~op.err.nil
              /\ ~op.err.nil => op.msg = NilMsg
              /\ (~op.exec.err.nil
                    \/ ~UnmarshalAllowUnknown(op.exec.stdout, NilMsg).err.nil)
                     => (op.msg = NilMsg /\ ~op.err.nil)
    /\ lastFetch.done
           => /\ lastFetch.msg.nil <=> ~lastFetch.err.nil
              /\ ~lastFetch.err.nil => lastFetch.msg = NilMsg

C23_Witness ==
    /\ op.done
    /\ op.name = "Clusters"
    /\ op.exec.err.nil
    /\ ~op.err.nil
    /\ op.msg = NilMsg
    /\ op.out.content # << >>

\* C24: when WaitForConfig fails and rendering the recorded snapshot fails
\* too, the failure is returned with its original cause and the "nil" marker
\* in place of the snapshot; the rendering error neither replaces the cause
\* nor turns the failure into success.
C24_RenderFailureKeepsCause ==
    (pc = "Returned" /\ rendered = "failed")
        => /\ ~err.nil
           /\ ~ret.nil
           /\ Contains(ret.text, err.text)
           /\ completed => Contains(ret.text, rejectedText)
           /\ ~completed => (~lasterr.nil /\ Contains(ret.text, lasterr.text))
           /\ LastConfigDump(ret.text) = nilMarker
           /\ op.err = ret

C24_Witness ==
    /\ pc = "Returned"
    /\ rendered = "failed"
    /\ ~cfg.nil
    /\ completed
    /\ ~ret.nil
    /\ LastConfigDump(ret.text) = nilMarker

====
